---- MODULE Spec2Model ----
(***************************************************************************)
(* Mezvaro: chains of handlers (pipelines), forked from one another, and   *)
(* the per-request Context that drives a resolved chain.                   *)
(*                                                                         *)
(* A drive is modelled call by call: `stack` is the Go call stack of the   *)
(* goroutine serving the request, one frame per active ServeHTTP, Next,    *)
(* handler function, adapter closure or Mezvaro.Handle.  `log` is the      *)
(* observation the tests make with their counters and flags: which handler *)
(* was invoked at which chain position, what it called, what it was given. *)
(***************************************************************************)
EXTENDS Integers, Sequences, FiniteSets, TLC

VARIABLES
    pipes,               \* the Mezvaro instances created so far: [parent, handlerChain, array, cap]
    entries,             \* the http.Handlers built by H so far: [m, h, wholeChain]
    urlParamsExtractor,  \* the process-wide extractor
    ctx,                 \* the Context of the request being served
    stack,               \* call stack of the serving goroutine, innermost frame last
    status,              \* "idle" | "running" | "returned" | "panicked"
    log,                 \* observed events of the drive, oldest first
    extra,               \* Next() calls made on the context after the drive returned
    paramsExtractorLock, \* the goroutine holding the sync.Mutex of the extractor, or Unlocked
    goroutines,          \* the goroutines beside the serving one: [pc, arg, local]
    done,                \* the cancellations so far, oldest first: <<scope id, error>>
    padding,             \* handlers that do nothing, held by the served chain after its first one
    other                \* the request of the second serving goroutine, which is not running now

\* What the steps of a drive that calls no With* operation leave alone.
elsewhere == <<paramsExtractorLock, goroutines, done, padding, other>>

vars == <<pipes, entries, urlParamsExtractor, ctx, stack, status, log, extra, elsewhere>>

----------------------------------------------------------------------------
\* Bounds of the model.

\* Mezvaro instances created by New and Fork, and handlers held by all of them
\* together: where requests are served (Spec, SpecDecorated), ...
MaxPipes == 2
MaxTotal == 3
\* ... where instances are only built (SpecChain), ...
ChainPipes == 3
ChainTotal == 4
\* ... and where long chains of handler functions are served (SpecDeep).
DeepPipes == 2
DeepTotal == 5

\* ... and where instances are put into the chains of one another (SpecNested).
NestPipes == 3
NestTotal == 4

\* ... and where the caller passes slices it holds to New and Fork (SpecAliased).
AliasPipes == 2
AliasTotal == 4
ResolvePipes == 2
ResolveTotal == 2
MaxResolves == 2
ParamPipes == 2
ParamTotal == 2
ParamEntries == 1
\* Instances, their handlers, and the http.Handlers made from them by H with
\* different last handlers (SpecEntries).
EntryPipes == 2
EntryTotal == 2
MaxEntries == 2
\* Handlers of the one instance whose handlers use every operation of the
\* context (SpecFrame).
FrameTotal == 3
\* Events of a drive over a long chain (SpecLong).
LongLog == 12
\* Handlers of the one instance whose handlers call Next once, twice or not at
\* all (SpecOnce).
OnceTotal == 3
\* Handlers of the instance that serves two requests at once, and the
\* http.Handlers made from it (SpecTwo).
TwoTotal == 2
TwoEntries == 1
\* Layers of the scope of a context (SpecConcurrent).
MaxScopes == 2
\* Instances and handlers where handlers set values (SpecValues).
ValuePipes == 2
ValueTotal == 4
\* ... and where they cancel the scope (SpecCancel).
CancelPipes == 2
CancelTotal == 3
\* ... and where they panic (SpecFault).
FaultPipes == 2
FaultTotal == 3

\* ... and where handlers call Use and entry points are built by H (SpecInFlight).
FlightPipes == 2
FlightTotal == 2
FlightEntries == 1

\* context.go: const MaxHandlers = int(math.MaxInt16)
MaxHandlers == 32767

----------------------------------------------------------------------------
\* Handlers.  A Handler value is what a chain slot holds: a HandlerFunc (its
\* body is a straight-line script of the Context calls it makes), a handler
\* made by WrapHandlerMiddleware (the middleware decides whether and with
\* which objects its inner handler is called), or a *Mezvaro.

Nil == 0

HandlerFunc(b) == [k |-> "func", b |-> b, p |-> Nil]
WrapHandlerMiddleware(b) == [k |-> "mw", b |-> b, p |-> Nil]
MezvaroHandler(m) == [k |-> "pipe", b |-> "", p |-> m]

\* What a HandlerFunc does with its Context, in program order:
\*   plain      returns without calling Next or Abort (TestNextWithoutExplicitCall)
\*   next       calls Next, then runs code after it (Middleware1, TestNext)
\*   abort      calls Abort and returns (TestAbort, AuthMiddleware)
\*   abortNext  calls Abort, then Next
\*   wrapped    calls the http.Handler it was made from, then Next (WrapHandler)
\*   use        calls Use on an instance, with one handler that does nothing
\*   key1, key2, other   call WithValue (UserAgentMiddleware of the README)
\*   cancel     calls WithCancel, then the CancelFunc it got
\*   timeout    calls WithTimeout, then Next, then the CancelFunc it got
\*   panic      panics; neither it nor any other handler recovers
Body(b) ==
    CASE b = "plain"     -> <<>>
      [] b = "next"      -> <<"Next", "Post">>
      [] b = "abort"     -> <<"Abort">>
      [] b = "abortNext" -> <<"Abort", "Next">>
      [] b = "nextNext"  -> <<"Next", "Next">>
      [] b = "wrapped"   -> <<"ServeHTTP", "Next">>
      [] b = "use"       -> <<"Use">>
      [] b \in {"key1", "key2", "other"} -> <<"With">>
      [] b = "cancel"    -> <<"With", "cancel">>
      [] b = "timeout"   -> <<"With", "Next", "cancel">>
      [] b = "panic"     -> <<"panic">>

\* func WrapHandler(handler http.Handler) Handler
WrapHandler == HandlerFunc("wrapped")

\* func WrapHandlerFunc(handler func(w, r)) Handler
WrapHandlerFunc == WrapHandler

\* Transport objects: the pair the server hands to ServeHTTP, and the pairs
\* two substituting middlewares hand to their inner handler.
ServerObjects == [w |-> "w0", r |-> "r0"]

\* The (w, r) a middleware passes to its inner handler when it received `got`;
\* "skip" never calls it.
InnerObjects(b, got) ==
    CASE b = "pass"  -> got
      [] b = "swapA" -> [w |-> "wA", r |-> "rA"]
      [] b = "swapB" -> [w |-> "wB", r |-> "rB"]

CoreHandlers ==
    {HandlerFunc("plain"), HandlerFunc("next"), HandlerFunc("abort"), HandlerFunc("abortNext")}
ChainHandlers == {HandlerFunc("plain"), HandlerFunc("next")}
DeepHandlers == {HandlerFunc("plain"), HandlerFunc("next"), WrapHandlerMiddleware("pass")}
DriftHandlers == {HandlerFunc("plain"), HandlerFunc("abortNext")}
FlightHandlers == {HandlerFunc("use")}
AdaptedHandlers == {HandlerFunc("plain"), WrapHandler, WrapHandlerFunc}
DecoratorHandlers ==
    {HandlerFunc("plain"), WrapHandlerMiddleware("pass"), WrapHandlerMiddleware("skip"),
     WrapHandlerMiddleware("swapA"), WrapHandlerMiddleware("swapB")}

----------------------------------------------------------------------------
\* Slices.  A []Handler is a view of an array: what it shows (list), which
\* array that is, and how much room the array has (cap).  An array that a
\* single slice views needs no name and no capacity, since nothing else can
\* see what append writes into it: array = Nil.

\* The slice Go builds for a call written with its arguments listed, New(a, b).
Listed(list) == [list |-> list, array |-> Nil, cap |-> 0]

\* A slice the caller holds and passes on as it is, New(hs...).
Passed(list, array, cap) == [list |-> list, array |-> array, cap |-> cap]

\* What a slice showing `list` shows after n cells from position at + 1 on
\* were overwritten in its array with `written`.
Overwritten(list, at, written) ==
    [j \in 1..Len(list) |->
        IF j > at /\ j <= at + Len(written) THEN written[j - at] ELSE list[j]]

\* append(s, more...): whether it writes into the array of s.
AppendsInPlace(s, more) ==
    s.array # Nil /\ more # <<>> /\ Len(s.list) + Len(more) <= s.cap

----------------------------------------------------------------------------
\* Goroutines beside the one that serves the request.
Goroutines == {"g1", "g2"}

\* A sync.Mutex no goroutine holds.
Unlocked == "unlocked"

\* A goroutine that is in no call: pc is where it is, arg what it was called
\* with, local what it has read so far.
Idle == [pc |-> "idle", arg |-> <<>>, local |-> <<>>]

----------------------------------------------------------------------------
\* Pipelines (type Mezvaro).

PipeIds(ps) == 1..Len(ps)

TotalHandlers(ps) ==
    LET RECURSIVE Sum(_)
        Sum(n) == IF n = 0 THEN 0 ELSE Len(ps[n].handlerChain) + Sum(n - 1)
    IN Sum(Len(ps))

\* Argument lists of at most n handlers over hs.
HandlerLists(hs, n) == UNION {[1..k -> hs] : k \in 0..n}

\* The handlers a call on instance m may pass: the given functions and adapters
\* and the instances older than m (m = Len(ps) + 1 for the instance New or Fork
\* is creating).  No instance is put into its own chain or into that of an
\* older one, which would make Handle recurse without end.
Arguments(ps, hs, m, total) ==
    HandlerLists(hs \cup {MezvaroHandler(q) : q \in 1..(m - 1)}, total - TotalHandlers(ps))

\* the loop "for current != nil" of wholeChain: m, its parent, ..., the root
RECURSIVE parents(_, _)
parents(ps, current) ==
    IF current = Nil THEN <<>>
    ELSE <<current>> \o parents(ps, ps[current].parent)

\* the loop "for i := len(parents) - 1; i >= 0; i--" of wholeChain, at 1-based i
RECURSIVE appendChains(_, _, _, _)
appendChains(ps, ancestors, i, handlers) ==
    IF i < 1 THEN handlers
    ELSE appendChains(ps, ancestors, i - 1, handlers \o ps[ancestors[i]].handlerChain)

\* a fault of wholeChain: the parents appended child first
RECURSIVE appendChainsChildFirst(_, _, _, _)
appendChainsChildFirst(ps, ancestors, i, handlers) ==
    IF i < 1 THEN handlers
    ELSE appendChainsChildFirst(ps, ancestors, i - 1, ps[ancestors[i]].handlerChain \o handlers)

wholeChainChildFirst(ps, m) ==
    appendChainsChildFirst(ps, parents(ps, m), Len(parents(ps, m)), <<>>)

wholeChain(ps, m) ==
    appendChains(ps, parents(ps, m), Len(parents(ps, m)), <<>>)

----------------------------------------------------------------------------
\* Context.

\* map[string]string: the nil map, and a map with the pairs kv.
NilMap == [isNil |-> TRUE, kv |-> {}]
MapOf(kv) == [isNil |-> FALSE, kv |-> kv]

\* m[name]: the value stored under name, or "" (also for the nil map).
Lookup(m, name) ==
    IF \E p \in m.kv : p[1] = name THEN (CHOOSE p \in m.kv : p[1] = name)[2] ELSE ""

\* context.Background(): the scope with nothing layered on it.  A scope is
\* the list of what was layered, the innermost last.
Background == <<>>

NoContext ==
    [Response |-> "", Request |-> "", index |-> -1, handlerChain |-> <<>>,
     urlParams |-> NilMap, netCtx |-> Background, mu |-> Unlocked]

\* a fault of the default extractor: a map with nothing in it
emptyURLParamsExtractor(r) == MapOf({})

\* func defaultURLParamsExtractor(r *http.Request) map[string]string
defaultURLParamsExtractor(r) == NilMap

\* The extractor of TestCustomParamsExtractor.
customURLParamsExtractor(r) == MapOf({<<"param", "value">>})

\* "urlParamsExtractor(r)", the variable holding one of the two functions.
ExtractParams(extractor, r) ==
    IF extractor = "default" THEN defaultURLParamsExtractor(r) ELSE customURLParamsExtractor(r)

\* a fault of newContext: the cursor and the scope are those of the request
\* served at the same time
newContextOfOther(w, r, handlerChain, urlParams) ==
    [Response |-> w, Request |-> r, index |-> other.ctx.index, handlerChain |-> handlerChain,
     urlParams |-> urlParams, netCtx |-> other.ctx.netCtx, mu |-> Unlocked]

newContext(w, r, handlerChain, urlParams) ==
    [Response |-> w, Request |-> r, index |-> -1, handlerChain |-> handlerChain,
     urlParams |-> urlParams, netCtx |-> Background, mu |-> Unlocked]

\* a fault of Abort: the cursor is moved to the end of the chain only
AbortToEndOfChain(c) == [c EXCEPT !.index = Len(c.handlerChain)]

\* func (c *Context) Abort()
Abort(c) == [c EXCEPT !.index = MaxHandlers]

\* func (c *Context) IsAborted() bool
IsAborted(c) == c.index >= MaxHandlers

\* func (c *Context) UrlParam(name string) string
UrlParam(c, name) == Lookup(c.urlParams, name)

----------------------------------------------------------------------------
\* The scope of a Context (golang.org/x/net/context behind c.netCtx).

\* What a With* call asks to layer on the scope: a value, a cancellation
\* (cancelCtx), or a deadline (timerCtx).  A cancelCtx and a timerCtx get an
\* id when they are made, which their CancelFunc keeps.
NoId == <<>>
valueCtx(key, val) == [kind |-> "value", key |-> key, val |-> val, deadline |-> 0, id |-> NoId]
cancelCtx == [kind |-> "cancel", key |-> "", val |-> "", deadline |-> 0, id |-> NoId]
timerCtx(deadline) == [kind |-> "timer", key |-> "", val |-> "", deadline |-> deadline, id |-> NoId]

\* The deadline of a scope is that of its innermost timerCtx.
Timers(scope) == {j \in DOMAIN scope : scope[j].kind = "timer"}
HasDeadline(scope) == Timers(scope) # {}
ScopeDeadline(scope) == scope[CHOOSE j \in Timers(scope) : \A k \in Timers(scope) : k <= j].deadline

\* The cancelCtx and timerCtx made so far that the scope is layered on.
ScopeIds(scope) == {scope[j].id : j \in DOMAIN scope} \ {NoId}

\* The id of the cancelCtx or timerCtx that goroutine `by` layers on scope.
NewId(scope, by) == <<by, Len(scope) + 1>>

\* a fault of the With* methods: the new layer is put on context.Background()
LayeredOnBackground(scope, layer, id) ==
    <<IF layer.kind = "value" THEN layer ELSE [layer EXCEPT !.id = id]>>

\* context.WithValue(parent, key, val), context.WithCancel(parent) and
\* context.WithDeadline(parent, d): the parent with one more layer.  Where the
\* parent's deadline is earlier than d, WithDeadline gives WithCancel(parent).
Layered(scope, layer, id) ==
    CASE layer.kind = "value"  -> Append(scope, layer)
      [] layer.kind = "cancel" -> Append(scope, [layer EXCEPT !.id = id])
      [] layer.kind = "timer"  ->
             IF HasDeadline(scope) /\ ScopeDeadline(scope) < layer.deadline
             THEN Append(scope, [cancelCtx EXCEPT !.id = id])
             ELSE Append(scope, [layer EXCEPT !.id = id])

\* A CancelFunc is called, or a timer fires: the first cancellation of a
\* cancelCtx stays, later ones change nothing.
Cancelled(d, id, err) ==
    IF \E k \in DOMAIN d : d[k][1] = id THEN d ELSE Append(d, <<id, err>>)

\* func (c *Context) Deadline() (deadline time.Time, ok bool)
Deadline(c) ==
    IF HasDeadline(c.netCtx) THEN [deadline |-> ScopeDeadline(c.netCtx), ok |-> TRUE]
    ELSE [deadline |-> 0, ok |-> FALSE]

\* func (c *Context) Err() error: the error of the first cancellation of a
\* cancelCtx the scope is layered on, or nil.
Err(c, d) ==
    LET hit == {k \in DOMAIN d : d[k][1] \in ScopeIds(c.netCtx)}
    IN IF hit = {} THEN "nil" ELSE d[CHOOSE k \in hit : \A j \in hit : k <= j][2]

\* func (c *Context) Done() <-chan struct{}: whether the channel is closed
Done(c, d) == Err(c, d) # "nil"

\* a fault of Value: the value layered first under key is given
ValueSetFirst(c, key) ==
    LET hit == {j \in DOMAIN c.netCtx : c.netCtx[j].kind = "value" /\ c.netCtx[j].key = key}
    IN IF hit = {} THEN "nil" ELSE c.netCtx[CHOOSE j \in hit : \A k \in hit : j <= k].val

\* func (c *Context) Value(key interface{}) interface{}: the value layered
\* last under key, or nil.
Value(c, key) ==
    LET hit == {j \in DOMAIN c.netCtx : c.netCtx[j].kind = "value" /\ c.netCtx[j].key = key}
    IN IF hit = {} THEN "nil" ELSE c.netCtx[CHOOSE j \in hit : \A k \in hit : k <= j].val

\* a fault of the With* methods: the parameters of the request are dropped
WithDroppingParams(c, layer, id) ==
    [c EXCEPT !.netCtx = Layered(@, layer, id), !.urlParams = NilMap]

\* A With* method of Context from Lock to Unlock: "c.netCtx = ..."
With(c, layer, id) == [c EXCEPT !.netCtx = Layered(@, layer, id)]

\* func (c *Context) WithCancel() (cancel context.CancelFunc)
WithCancel(c, id) == With(c, cancelCtx, id)

\* func (c *Context) WithDeadline(deadline time.Time) (cancel context.CancelFunc)
WithDeadline(c, deadline, id) == With(c, timerCtx(deadline), id)

\* func (c *Context) WithTimeout(timeout time.Duration): the deadline is
\* time.Now().Add(timeout); the model starts its time at 0.
WithTimeout(c, timeout, id) == WithDeadline(c, timeout, id)

\* func (c *Context) WithValue(key interface{}, val interface{})
WithValue(c, key, val) == With(c, valueCtx(key, val), NoId)

----------------------------------------------------------------------------
\* Call stack.  Every frame has the same fields:
\*   f       "ServeHTTP" | "Next" | "func" | "mw" | "pipe"
\*   pc      where the frame's code stands
\*   s       (Next) the chain length read on entry
\*   h       (handler frames) the handler that runs
\*   i, g    (handler frames) the chain position it was invoked at, and the
\*           number of the chain (0 for the chain the context was created
\*           with, one more after every rebinding by Mezvaro.Handle)
\*   n       (func) the calls of Body(h.b) already made
\*   called  (mw) the closure variable calledNext

Frame(f, pc) == [f |-> f, pc |-> pc, s |-> 0, h |-> HandlerFunc(""), i |-> 0, g |-> 0,
                 n |-> 0, called |-> FALSE, cancel |-> NoId]

Top == stack[Len(stack)]
Pop(st) == SubSeq(st, 1, Len(st) - 1)
SetTop(st, fr) == [st EXCEPT ![Len(st)] = fr]

Running == status = "running" /\ stack # <<>>

\* Chains bound to the context so far by Mezvaro.Handle.
Generation(l) == Cardinality({k \in DOMAIN l : l[k].ev = "rebind"})

Event(ev, fr, c) ==
    [ev |-> ev, h |-> fr.h, i |-> fr.i, g |-> fr.g, w |-> c.Response, r |-> c.Request,
     chain |-> c.handlerChain, scope |-> c.netCtx]

\* c.Next() called from the frame on top of `st`, which goes on at `pc` when
\* the call returns: "c.index++; s := len(c.handlerChain)".
\* Gives the new context and the new stack.
\* A chain too long to be written out is listed without its padding: the
\* `padding` handlers HandlerFunc("plain") that follow its first handler.  Only
\* the chain a request is served with may be padded; a chain bound by
\* Mezvaro.Handle is listed whole.  Where padding is 0, len(c.handlerChain) is the
\* length of the list and c.handlerChain[i] its element.
Padding == IF Generation(log) = 0 THEN padding ELSE 0

ChainLength(c) == Len(c.handlerChain) + Padding

HandlerAt(c, i) ==
    IF i = 0 THEN c.handlerChain[1]
    ELSE IF i <= Padding THEN HandlerFunc("plain")
    ELSE c.handlerChain[i - Padding + 1]

CallNext(c, st, pc) ==
    [c  |-> [c EXCEPT !.index = @ + 1],
     st |-> Append(SetTop(st, [st[Len(st)] EXCEPT !.pc = pc]),
                   [Frame("Next", "test") EXCEPT !.s = ChainLength(c)])]

----------------------------------------------------------------------------
\* Construction: New, Use, Fork.  Instances are set up before requests are
\* served.

Configuring == status = "idle"

\* "handlerChain: handlers": the instance holds the slice it was given.
New(handlers) ==
    /\ Configuring
    /\ pipes' = Append(pipes, [parent |-> Nil, handlerChain |-> handlers.list,
                               array |-> handlers.array, cap |-> handlers.cap])
    /\ UNCHANGED <<entries, urlParamsExtractor, ctx, stack, status, log, extra, elsewhere>>

\* New(handlers...) with a list too long to be written out: the handlers given
\* and, after the first of them, n handlers that do nothing.
NewPadded(handlers, n) ==
    /\ Configuring
    /\ pipes' = Append(pipes, [parent |-> Nil, handlerChain |-> handlers.list,
                               array |-> handlers.array, cap |-> handlers.cap])
    /\ padding' = n
    /\ UNCHANGED <<entries, urlParamsExtractor, ctx, stack, status, log, extra,
                   paramsExtractorLock, goroutines, done, other>>

\* a fault of Use: the handlers are put in front of the list
AppendedInFront(ps, m, handler) ==
    [ps EXCEPT ![m].handlerChain = handler \o @]

\* "m.handlerChain = append(m.handlerChain, handler...)": where the array has
\* room, append writes into it, and every instance whose slice views the same
\* array and reaches that far shows what was written; otherwise the instance
\* gets an array of its own.
Appended(ps, m, handler) ==
    LET own == [list |-> ps[m].handlerChain, array |-> ps[m].array, cap |-> ps[m].cap]
    IN [q \in DOMAIN ps |->
           IF q = m
           THEN IF AppendsInPlace(own, handler) \/ handler = <<>>
                THEN [ps[q] EXCEPT !.handlerChain = @ \o handler]
                ELSE [ps[q] EXCEPT !.handlerChain = @ \o handler, !.array = Nil, !.cap = 0]
           ELSE IF AppendsInPlace(own, handler) /\ ps[q].array = own.array
                THEN [ps[q] EXCEPT !.handlerChain = Overwritten(@, Len(own.list), handler)]
                ELSE ps[q]]

\* func (m *Mezvaro) Use(handler ...Handler), while instances are set up
Use(m, handler) ==
    /\ Configuring
    /\ pipes' = Appended(pipes, m, handler)
    /\ UNCHANGED <<entries, urlParamsExtractor, ctx, stack, status, log, extra, elsewhere>>

Fork(m, handlers) ==
    /\ Configuring
    /\ pipes' = Append(pipes, [parent |-> m, handlerChain |-> handlers.list,
                               array |-> handlers.array, cap |-> handlers.cap])
    /\ UNCHANGED <<entries, urlParamsExtractor, ctx, stack, status, log, extra, elsewhere>>

\* What a call of m.wholeChain() leaves in the log: the slice it returned.
Resolved(m, handlers) ==
    Event("resolve", [Frame("wholeChain", "ret") EXCEPT !.h = MezvaroHandler(m)],
          [NoContext EXCEPT !.handlerChain = handlers])

\* a fault of wholeChain: the instance keeps the resolved chain as its own
ResolveKeepingChain(m, most) ==
    /\ Configuring
    /\ Cardinality({k \in DOMAIN log : log[k].ev = "resolve"}) < most
    /\ log' = Append(log, Resolved(m, wholeChain(pipes, m)))
    /\ pipes' = [pipes EXCEPT ![m].handlerChain = wholeChain(pipes, m)]
    /\ UNCHANGED <<entries, urlParamsExtractor, ctx, stack, status, extra, elsewhere>>

\* A call of m.wholeChain() by code of the package, at most `most` times: it
\* reads the handler lists of m and its parents and returns a new slice.
Resolve(m, most) ==
    /\ Configuring
    /\ Cardinality({k \in DOMAIN log : log[k].ev = "resolve"}) < most
    /\ log' = Append(log, Resolved(m, wholeChain(pipes, m)))
    /\ UNCHANGED <<pipes, entries, urlParamsExtractor, ctx, stack, status, extra, elsewhere>>

\* func SetURLParamsExtractor(extractor URLParamsExtractor), at any time
SetURLParamsExtractor(extractor) ==
    /\ urlParamsExtractor' = extractor
    /\ UNCHANGED <<pipes, entries, ctx, stack, status, log, extra, elsewhere>>

\* SetURLParamsExtractor called by goroutine g, statement by statement:
\* "paramsExtractorLock.Lock()", which waits while the mutex is held, ...
SetURLParamsExtractorLock(g, extractor) ==
    /\ goroutines[g].pc = "idle"
    /\ paramsExtractorLock = Unlocked
    /\ paramsExtractorLock' = g
    /\ goroutines' = [goroutines EXCEPT ![g] = [Idle EXCEPT !.pc = "store", !.arg = extractor]]
    /\ UNCHANGED <<pipes, entries, urlParamsExtractor, ctx, stack, status, log, extra, done, padding, other>>

\* ... "urlParamsExtractor = extractor", ...
SetURLParamsExtractorStore(g) ==
    /\ goroutines[g].pc = "store"
    /\ urlParamsExtractor' = goroutines[g].arg
    /\ goroutines' = [goroutines EXCEPT ![g].pc = "unlock"]
    /\ UNCHANGED <<pipes, entries, ctx, stack, status, log, extra, paramsExtractorLock, done, padding, other>>

\* ... and the deferred "paramsExtractorLock.Unlock()".
SetURLParamsExtractorUnlock(g) ==
    /\ goroutines[g].pc = "unlock"
    /\ paramsExtractorLock' = Unlocked
    /\ goroutines' = [goroutines EXCEPT ![g] = Idle]
    /\ UNCHANGED <<pipes, entries, urlParamsExtractor, ctx, stack, status, log, extra, done, padding, other>>

\* A With* method called by goroutine g on the context of the request,
\* statement by statement, while the scope has fewer than `most` layers.
\* The call is made, ...
WithCall(g, layer, most) ==
    /\ status # "idle"
    /\ goroutines[g].pc = "idle"
    /\ Len(ctx.netCtx) < most
    /\ goroutines' = [goroutines EXCEPT ![g] = [Idle EXCEPT !.pc = "with.lock", !.arg = layer]]
    /\ UNCHANGED <<pipes, entries, urlParamsExtractor, ctx, stack, status, log, extra,
                   paramsExtractorLock, done, padding, other>>

\* a fault of the With* methods: the mutex is not waited for
WithLockNotWaiting(g) ==
    /\ goroutines[g].pc = "with.lock"
    /\ ctx' = [ctx EXCEPT !.mu = g]
    /\ goroutines' = [goroutines EXCEPT ![g].pc = "with.derive"]
    /\ UNCHANGED <<pipes, entries, urlParamsExtractor, stack, status, log, extra,
                   paramsExtractorLock, done, padding, other>>

\* ... "c.mu.Lock()" waits while the mutex is held, ...
WithLock(g) ==
    /\ goroutines[g].pc = "with.lock"
    /\ ctx.mu = Unlocked
    /\ ctx' = [ctx EXCEPT !.mu = g]
    /\ goroutines' = [goroutines EXCEPT ![g].pc = "with.derive"]
    /\ UNCHANGED <<pipes, entries, urlParamsExtractor, stack, status, log, extra,
                   paramsExtractorLock, done, padding, other>>

\* ... "valueContext := context.WithValue(c.netCtx, key, val)" reads the scope, ...
WithDerive(g) ==
    /\ goroutines[g].pc = "with.derive"
    /\ goroutines' = [goroutines EXCEPT
                         ![g].pc = "with.store",
                         ![g].local = Layered(ctx.netCtx, goroutines[g].arg, NewId(ctx.netCtx, g))]
    /\ UNCHANGED <<pipes, entries, urlParamsExtractor, ctx, stack, status, log, extra,
                   paramsExtractorLock, done, padding, other>>

\* ... "c.netCtx = valueContext" writes it, ...
WithStore(g) ==
    /\ goroutines[g].pc = "with.store"
    /\ ctx' = [ctx EXCEPT !.netCtx = goroutines[g].local]
    /\ goroutines' = [goroutines EXCEPT ![g].pc = "with.unlock"]
    /\ UNCHANGED <<pipes, entries, urlParamsExtractor, stack, status, log, extra,
                   paramsExtractorLock, done, padding, other>>

\* ... and the deferred "c.mu.Unlock()".
WithUnlock(g) ==
    /\ goroutines[g].pc = "with.unlock"
    /\ ctx' = [ctx EXCEPT !.mu = Unlocked]
    /\ goroutines' = [goroutines EXCEPT ![g] = Idle]
    /\ UNCHANGED <<pipes, entries, urlParamsExtractor, stack, status, log, extra,
                   paramsExtractorLock, done, padding, other>>

\* a fault of H: h is appended to the own list of m as well
HUsingToo(m, h, most) ==
    /\ Configuring
    /\ Len(entries) < most
    /\ entries' = Append(entries, [m |-> m, h |-> h, wholeChain |-> wholeChain(pipes, m) \o <<h>>])
    /\ pipes' = Appended(pipes, m, <<h>>)
    /\ UNCHANGED <<urlParamsExtractor, ctx, stack, status, log, extra, elsewhere>>

\* func (m *Mezvaro) H(h Handler) http.Handler: the chain is resolved and h
\* appended now; the http.Handler returned keeps that slice.
H(m, h, most) ==
    /\ Configuring
    /\ Len(entries) < most
    /\ entries' = Append(entries, [m |-> m, h |-> h, wholeChain |-> wholeChain(pipes, m) \o <<h>>])
    /\ UNCHANGED <<pipes, urlParamsExtractor, ctx, stack, status, log, extra, elsewhere>>

\* The http.Handler made by H, as a value to name it in the log.
EntryHandler(e) == [k |-> "entry", b |-> "", p |-> e]

----------------------------------------------------------------------------
\* Serving a request.

\* The http.Handler returned by H serves a request: "c := newContext(w, r,
\* wholeChain, urlParamsExtractor(r))"; c.Next() follows.
EntryServeHTTP(e, w, r) ==
    /\ status = "idle"
    /\ ctx' = newContext(w, r, entries[e].wholeChain, ExtractParams(urlParamsExtractor, r))
    /\ stack' = <<Frame("ServeHTTP", "next")>>
    /\ status' = "running"
    /\ log' = <<Event("serve", [Frame("ServeHTTP", "next") EXCEPT !.h = EntryHandler(e)], ctx')>>
    /\ UNCHANGED <<pipes, entries, urlParamsExtractor, extra, elsewhere>>

\* func (m *Mezvaro) ServeHTTP(w, r): the context is created; c.Next() follows.
ServeHTTP(m, w, r) ==
    /\ status = "idle"
    /\ ctx' = newContext(w, r, wholeChain(pipes, m), ExtractParams(urlParamsExtractor, r))
    /\ stack' = <<Frame("ServeHTTP", "next")>>
    /\ status' = "running"
    /\ log' = <<Event("serve", [Frame("ServeHTTP", "next") EXCEPT !.h = MezvaroHandler(m)], ctx')>>
    /\ UNCHANGED <<pipes, entries, urlParamsExtractor, extra, elsewhere>>

\* ServeHTTP calls c.Next().
ServeHTTPNext ==
    /\ Running /\ Top.f = "ServeHTTP" /\ Top.pc = "next"
    /\ LET n == CallNext(ctx, stack, "ret") IN ctx' = n.c /\ stack' = n.st
    /\ UNCHANGED <<pipes, entries, urlParamsExtractor, status, log, extra, elsewhere>>

\* ServeHTTP returns to the server.
ServeHTTPReturn ==
    /\ Running /\ Top.f = "ServeHTTP" /\ Top.pc = "ret"
    /\ stack' = <<>>
    /\ status' = "returned"
    /\ UNCHANGED <<pipes, entries, urlParamsExtractor, ctx, log, extra, elsewhere>>

\* func (c *Context) Next(), the loop "for ; c.index < s; c.index++":
\* the test passes and c.handlerChain[c.index].Handle(c) is called.
NextInvoke ==
    /\ Running /\ Top.f = "Next" /\ Top.pc = "test"
    /\ ctx.index < Top.s
    /\ ctx.index < ChainLength(ctx)
    /\ LET h  == HandlerAt(ctx, ctx.index)
           fr == [Frame(h.k, "start") EXCEPT !.h = h, !.i = ctx.index, !.g = Generation(log)]
       IN /\ stack' = Append(SetTop(stack, [Top EXCEPT !.pc = "inc"]), fr)
          /\ log' = Append(log, Event("invoke", fr, ctx))
    /\ UNCHANGED <<pipes, entries, urlParamsExtractor, ctx, status, extra, elsewhere>>

\* The test passes but c.index is no index of the chain the context holds now:
\* the index expression panics, and the panic unwinds every frame.
NextOutOfRange ==
    /\ Running /\ Top.f = "Next" /\ Top.pc = "test"
    /\ ctx.index < Top.s
    /\ ctx.index >= ChainLength(ctx)
    /\ stack' = <<>>
    /\ status' = "panicked"
    /\ UNCHANGED <<pipes, entries, urlParamsExtractor, ctx, log, extra, elsewhere>>

\* a fault of Next: the cursor stops at the length read on entry
NextIncrementWithinChain ==
    /\ Running /\ Top.f = "Next" /\ Top.pc = "inc"
    /\ ctx' = [ctx EXCEPT !.index = IF @ < Top.s THEN @ + 1 ELSE @]
    /\ stack' = SetTop(stack, [Top EXCEPT !.pc = "test"])
    /\ UNCHANGED <<pipes, entries, urlParamsExtractor, status, log, extra, elsewhere>>

\* The handler has returned: the loop's "c.index++".
NextIncrement ==
    /\ Running /\ Top.f = "Next" /\ Top.pc = "inc"
    /\ ctx' = [ctx EXCEPT !.index = @ + 1]
    /\ stack' = SetTop(stack, [Top EXCEPT !.pc = "test"])
    /\ UNCHANGED <<pipes, entries, urlParamsExtractor, status, log, extra, elsewhere>>

\* The test fails: Next returns to its caller.
NextReturn ==
    /\ Running /\ Top.f = "Next" /\ Top.pc = "test"
    /\ ~(ctx.index < Top.s)
    /\ stack' = Pop(stack)
    /\ status' = IF Len(stack) = 1 THEN "returned" ELSE status
    /\ UNCHANGED <<pipes, entries, urlParamsExtractor, ctx, log, extra, elsewhere>>

----------------------------------------------------------------------------
\* Handler functions (HandlerFunc.Handle runs hf(c)).

NextCall == Top.f = "func" /\ Top.n < Len(Body(Top.h.b))

\* The function calls c.Abort().
FuncAbort ==
    /\ Running /\ NextCall /\ Body(Top.h.b)[Top.n + 1] = "Abort"
    /\ ctx' = Abort(ctx)
    /\ stack' = SetTop(stack, [Top EXCEPT !.n = @ + 1])
    /\ log' = Append(log, Event("abort", Top, ctx))
    /\ UNCHANGED <<pipes, entries, urlParamsExtractor, status, extra, elsewhere>>

\* The function calls c.Next().
FuncNext ==
    /\ Running /\ NextCall /\ Body(Top.h.b)[Top.n + 1] = "Next"
    /\ LET n == CallNext(ctx, SetTop(stack, [Top EXCEPT !.n = @ + 1]), Top.pc)
       IN ctx' = n.c /\ stack' = n.st
    /\ log' = Append(log, Event("next", Top, ctx))
    /\ UNCHANGED <<pipes, entries, urlParamsExtractor, status, extra, elsewhere>>

\* The function runs the code it has after its call of c.Next().
FuncPost ==
    /\ Running /\ NextCall /\ Body(Top.h.b)[Top.n + 1] = "Post"
    /\ stack' = SetTop(stack, [Top EXCEPT !.n = @ + 1])
    /\ log' = Append(log, Event("post", Top, ctx))
    /\ UNCHANGED <<pipes, entries, urlParamsExtractor, ctx, status, extra, elsewhere>>

\* The function made by WrapHandler calls "handler.ServeHTTP(c.Response, c.Request)".
FuncServeHTTP ==
    /\ Running /\ NextCall /\ Body(Top.h.b)[Top.n + 1] = "ServeHTTP"
    /\ stack' = SetTop(stack, [Top EXCEPT !.n = @ + 1])
    /\ log' = Append(log, Event("wrapped", Top, ctx))
    /\ UNCHANGED <<pipes, entries, urlParamsExtractor, ctx, status, extra, elsewhere>>

\* a fault of ServeHTTP and Use: the context is given a slice that views the
\* array of the instance it was called on, so that Use writes into its chain
FuncUseSeenByContext(total) ==
    /\ Running /\ NextCall /\ Body(Top.h.b)[Top.n + 1] = "Use"
    /\ TotalHandlers(pipes) < total
    /\ \E m \in PipeIds(pipes) :
          /\ pipes' = Appended(pipes, m, <<HandlerFunc("plain")>>)
          /\ ctx' = [ctx EXCEPT !.handlerChain = @ \o <<HandlerFunc("plain")>>]
    /\ stack' = SetTop(stack, [Top EXCEPT !.n = @ + 1])
    /\ log' = Append(log, Event("use", Top, ctx))
    /\ UNCHANGED <<entries, urlParamsExtractor, status, extra, elsewhere>>

\* The function calls Use on one of the instances, while the drive is going on
\* and while all instances together hold fewer than `total` handlers.
FuncUse(total) ==
    /\ Running /\ NextCall /\ Body(Top.h.b)[Top.n + 1] = "Use"
    /\ TotalHandlers(pipes) < total
    /\ \E m \in PipeIds(pipes) : pipes' = Appended(pipes, m, <<HandlerFunc("plain")>>)
    /\ stack' = SetTop(stack, [Top EXCEPT !.n = @ + 1])
    /\ log' = Append(log, Event("use", Top, ctx))
    /\ UNCHANGED <<entries, urlParamsExtractor, ctx, status, extra, elsewhere>>

\* What the function asks its With* call to layer on the scope.
WithArgument(b) ==
    CASE b = "key1"    -> valueCtx("key", "v1")
      [] b = "key2"    -> valueCtx("key", "v2")
      [] b = "other"   -> valueCtx("other", "o")
      [] b = "cancel"  -> cancelCtx
      [] b = "timeout" -> timerCtx(1)

\* The function calls c.WithValue, c.WithCancel or c.WithTimeout, and keeps
\* the CancelFunc it gets.
FuncWith ==
    /\ Running /\ NextCall /\ Body(Top.h.b)[Top.n + 1] = "With"
    /\ ctx.mu = Unlocked
    /\ LET id == NewId(ctx.netCtx, "server")
       IN /\ ctx' = With(ctx, WithArgument(Top.h.b), id)
          /\ stack' = SetTop(stack, [Top EXCEPT !.n = @ + 1, !.cancel = id])
    /\ log' = Append(log, Event("with", Top, ctx'))
    /\ UNCHANGED <<pipes, entries, urlParamsExtractor, status, extra, elsewhere>>

\* The function calls the CancelFunc it holds.
FuncCancel ==
    /\ Running /\ NextCall /\ Body(Top.h.b)[Top.n + 1] = "cancel"
    /\ done' = Cancelled(done, Top.cancel, "Canceled")
    /\ stack' = SetTop(stack, [Top EXCEPT !.n = @ + 1])
    /\ log' = Append(log, Event("cancel", Top, ctx))
    /\ UNCHANGED <<pipes, entries, urlParamsExtractor, ctx, status, extra,
                   paramsExtractorLock, goroutines, padding, other>>

\* The deadline of a timerCtx of the scope passes.
TimerFires ==
    /\ status = "running"
    /\ \E j \in Timers(ctx.netCtx) :
          /\ \A k \in DOMAIN done : done[k][1] # ctx.netCtx[j].id
          /\ done' = Cancelled(done, ctx.netCtx[j].id, "DeadlineExceeded")
    /\ UNCHANGED <<pipes, entries, urlParamsExtractor, ctx, stack, status, log, extra,
                   paramsExtractorLock, goroutines, padding, other>>

\* a fault of Next: the loop recovers from the panic of a handler and goes on
FuncPanicCaught ==
    /\ Running /\ NextCall /\ Body(Top.h.b)[Top.n + 1] = "panic"
    /\ stack' = Pop(stack)
    /\ log' = Append(log, Event("panic", Top, ctx))
    /\ UNCHANGED <<pipes, entries, urlParamsExtractor, ctx, status, extra, elsewhere>>

\* The function panics.  Next, ServeHTTP, Handle and the adapters have no
\* recover, so every frame is unwound and the caller of ServeHTTP gets the
\* panic.
FuncPanic ==
    /\ Running /\ NextCall /\ Body(Top.h.b)[Top.n + 1] = "panic"
    /\ stack' = <<>>
    /\ status' = "panicked"
    /\ log' = Append(log, Event("panic", Top, ctx))
    /\ UNCHANGED <<pipes, entries, urlParamsExtractor, ctx, extra, elsewhere>>

\* A handler returns to the loop of Next that called it.
HandlerReturn ==
    /\ Running
    /\ \/ Top.f = "func" /\ Top.n = Len(Body(Top.h.b))
       \/ Top.f \in {"mw", "pipe"} /\ Top.pc = "ret"
    /\ stack' = Pop(stack)
    /\ log' = Append(log, Event("return", Top, ctx))
    /\ UNCHANGED <<pipes, entries, urlParamsExtractor, ctx, status, extra, elsewhere>>

----------------------------------------------------------------------------
\* func (m *Mezvaro) Handle(c *Context): an instance used as a handler.

\* a fault of Handle: the parameters are extracted again
MezvaroHandleExtracting ==
    /\ Running /\ Top.f = "pipe" /\ Top.pc = "start"
    /\ ctx' = [ctx EXCEPT !.handlerChain = wholeChain(pipes, Top.h.p), !.index = -1,
                          !.urlParams = ExtractParams(urlParamsExtractor, ctx.Request)]
    /\ stack' = SetTop(stack, [Top EXCEPT !.pc = "next"])
    /\ log' = Append(log, Event("rebind", Top, ctx'))
    /\ UNCHANGED <<pipes, entries, urlParamsExtractor, status, extra, elsewhere>>

\* "c.handlerChain = m.wholeChain(); c.index = -1"
MezvaroHandle ==
    /\ Running /\ Top.f = "pipe" /\ Top.pc = "start"
    /\ ctx' = [ctx EXCEPT !.handlerChain = wholeChain(pipes, Top.h.p), !.index = -1]
    /\ stack' = SetTop(stack, [Top EXCEPT !.pc = "next"])
    /\ log' = Append(log, Event("rebind", Top, ctx'))
    /\ UNCHANGED <<pipes, entries, urlParamsExtractor, status, extra, elsewhere>>

\* "c.Next()"
MezvaroHandleNext ==
    /\ Running /\ Top.f = "pipe" /\ Top.pc = "next"
    /\ LET n == CallNext(ctx, stack, "ret") IN ctx' = n.c /\ stack' = n.st
    /\ UNCHANGED <<pipes, entries, urlParamsExtractor, status, log, extra, elsewhere>>

----------------------------------------------------------------------------
\* WrapHandlerMiddleware(middleware): the closure fn(c).

Held(c) == [w |-> c.Response, r |-> c.Request]

\* "handler.ServeHTTP(c.Response, c.Request)" with a handler that returns
\* without calling the inner handler it was built around.
MiddlewareSkips ==
    /\ Running /\ Top.f = "mw" /\ Top.pc = "start" /\ Top.h.b = "skip"
    /\ stack' = SetTop(stack, [Top EXCEPT !.pc = "check"])
    /\ log' = Append(log, Event("outer", Top, ctx))
    /\ UNCHANGED <<pipes, entries, urlParamsExtractor, ctx, status, extra, elsewhere>>

\* a fault of WrapHandlerMiddleware: the inner handler does not store the
\* (w, r) it is given
MiddlewareCallsInnerKeepsObjects ==
    /\ Running /\ Top.f = "mw" /\ Top.pc = "start" /\ Top.h.b # "skip"
    /\ LET given == InnerObjects(Top.h.b, Held(ctx))
           n     == CallNext(ctx, SetTop(stack, [Top EXCEPT !.called = TRUE]), "check")
       IN /\ ctx' = n.c
          /\ stack' = n.st
          /\ log' = log \o <<Event("outer", Top, ctx),
                              [Event("inner", Top, ctx) EXCEPT !.w = given.w, !.r = given.r]>>
    /\ UNCHANGED <<pipes, entries, urlParamsExtractor, status, extra, elsewhere>>

\* "handler.ServeHTTP(c.Response, c.Request)" with a handler that calls the
\* inner handler, which sets calledNext, stores the (w, r) it is given in the
\* context and calls c.Next().
MiddlewareCallsInner ==
    /\ Running /\ Top.f = "mw" /\ Top.pc = "start" /\ Top.h.b # "skip"
    /\ LET given == InnerObjects(Top.h.b, Held(ctx))
           c1    == [ctx EXCEPT !.Response = given.w, !.Request = given.r]
           n     == CallNext(c1, SetTop(stack, [Top EXCEPT !.called = TRUE]), "check")
       IN /\ ctx' = n.c
          /\ stack' = n.st
          /\ log' = log \o <<Event("outer", Top, ctx), Event("inner", Top, c1)>>
    /\ UNCHANGED <<pipes, entries, urlParamsExtractor, status, extra, elsewhere>>

\* a fault of WrapHandlerMiddleware: the test of calledNext is left out
MiddlewareCheckNeverAborts ==
    /\ Running /\ Top.f = "mw" /\ Top.pc = "check"
    /\ stack' = SetTop(stack, [Top EXCEPT !.pc = "ret"])
    /\ UNCHANGED <<pipes, entries, urlParamsExtractor, ctx, status, log, extra, elsewhere>>

\* "if !calledNext { c.Abort() }"
MiddlewareCheck ==
    /\ Running /\ Top.f = "mw" /\ Top.pc = "check"
    /\ stack' = SetTop(stack, [Top EXCEPT !.pc = "ret"])
    /\ IF ~Top.called
       THEN ctx' = Abort(ctx) /\ log' = Append(log, Event("abort", Top, ctx))
       ELSE UNCHANGED <<ctx, log>>
    /\ UNCHANGED <<pipes, entries, urlParamsExtractor, status, extra, elsewhere>>

----------------------------------------------------------------------------
\* The caller keeps the context after the drive (as the tests do) and calls
\* c.Next() on it again.

ExternalNext(limit) ==
    /\ status = "returned"
    /\ extra < limit
    /\ extra' = extra + 1
    /\ ctx' = [ctx EXCEPT !.index = @ + 1]
    /\ stack' = <<[Frame("Next", "test") EXCEPT !.s = ChainLength(ctx)]>>
    /\ status' = "running"
    /\ UNCHANGED <<pipes, entries, urlParamsExtractor, log, elsewhere>>

----------------------------------------------------------------------------
\* Two requests served at once.  Each request is served by a goroutine of
\* net/http; the variables ctx, stack, status, log, extra and done are those of
\* the goroutine that takes the next step, and `other` keeps those of the
\* goroutine that waits.  The instances, the entries and the extractor are
\* shared.

NoRequest(id) ==
    [id |-> id, ctx |-> NoContext, stack |-> <<>>, status |-> "idle", log |-> <<>>,
     extra |-> 0, done |-> <<>>]

\* The request whose goroutine takes the next step.
Current == 3 - other.id

\* The (w, r) net/http hands to ServeHTTP for each request.
RequestObjects(id) == IF id = 1 THEN ServerObjects ELSE [w |-> "w1", r |-> "r1"]

\* The scheduler goes from one serving goroutine to the other.
Switch ==
    /\ other' = [id |-> Current, ctx |-> ctx, stack |-> stack, status |-> status,
                 log |-> log, extra |-> extra, done |-> done]
    /\ ctx' = other.ctx
    /\ stack' = other.stack
    /\ status' = other.status
    /\ log' = other.log
    /\ extra' = other.extra
    /\ done' = other.done
    /\ UNCHANGED <<pipes, entries, urlParamsExtractor, paramsExtractorLock, goroutines, padding>>

----------------------------------------------------------------------------
\* Specifications.

Init ==
    /\ pipes = <<>>
    /\ entries = <<>>
    /\ urlParamsExtractor = "default"
    /\ ctx = NoContext
    /\ stack = <<>>
    /\ status = "idle"
    /\ log = <<>>
    /\ extra = 0
    /\ paramsExtractorLock = Unlocked
    /\ goroutines = [g \in Goroutines |-> Idle]
    /\ done = <<>>
    /\ padding = 0
    /\ other = NoRequest(2)

\* New, Use and Fork with handlers of hs, while at most `most` instances hold at
\* most `total` handlers.
Construct(hs, most, total) ==
    \/ /\ Len(pipes) < most
       /\ \E handlers \in Arguments(pipes, hs, Len(pipes) + 1, total) : New(Listed(handlers))
    \/ \E m \in PipeIds(pipes) : \E handler \in Arguments(pipes, hs, m, total) : Use(m, handler)
    \/ /\ Len(pipes) < most
       /\ \E m \in PipeIds(pipes) :
             \E handlers \in Arguments(pipes, hs, Len(pipes) + 1, total) : Fork(m, Listed(handlers))

\* The slices the caller holds: hs := make([]Handler, 1, 2) with a handler in
\* hs[0], and make([]Handler, 0, 1).
CallerSlices ==
    {Passed(<<HandlerFunc("plain")>>, 1, 2), Passed(<<>>, 2, 1)}

\* New(hs...) and Fork(hs...) with a slice the caller holds.
ConstructPassed(most, total) ==
    \/ /\ Len(pipes) < most
       /\ \E hs \in CallerSlices :
             Len(hs.list) <= total - TotalHandlers(pipes) /\ New(hs)
    \/ /\ Len(pipes) < most
       /\ \E m \in PipeIds(pipes) : \E hs \in CallerSlices :
             Len(hs.list) <= total - TotalHandlers(pipes) /\ Fork(m, hs)

Serve ==
    \/ \E m \in PipeIds(pipes) : ServeHTTP(m, ServerObjects.w, ServerObjects.r)
    \/ ServeHTTPNext
    \/ ServeHTTPReturn

Drive ==
    \/ NextInvoke
    \/ NextIncrement
    \/ NextReturn
    \/ HandlerReturn

Nested ==
    \/ NextOutOfRange
    \/ MezvaroHandle
    \/ MezvaroHandleNext

Functions ==
    \/ FuncAbort
    \/ FuncNext
    \/ FuncPost

Decorators ==
    \/ MiddlewareSkips
    \/ MiddlewareCallsInner
    \/ MiddlewareCheck

\* Chains of handler functions and nested instances.
Next == Construct(CoreHandlers, MaxPipes, MaxTotal) \/ Serve \/ Drive \/ Nested \/ Functions

Spec == Init /\ [][Next]_vars

\* Chains with handlers made by WrapHandlerMiddleware.
NextDecorated ==
    Construct(DecoratorHandlers, MaxPipes, MaxTotal) \/ Serve \/ Drive \/ Nested \/ Decorators

SpecDecorated == Init /\ [][NextDecorated]_vars

\* Building instances only: deeper forks, longer lists.
NextChain == Construct(ChainHandlers, ChainPipes, ChainTotal)

SpecChain == Init /\ [][NextChain]_vars

\* Longer chains of handlers that leave the chain running.
NextDeep ==
    \/ Construct(DeepHandlers, DeepPipes, DeepTotal)
    \/ Serve \/ Drive \/ Nested
    \/ FuncNext \/ FuncPost
    \/ MiddlewareCallsInner \/ MiddlewareCheck

SpecDeep == Init /\ [][NextDeep]_vars

\* Chains with handlers made by WrapHandler and WrapHandlerFunc.
NextAdapted ==
    \/ Construct(AdaptedHandlers, DeepPipes, DeepTotal)
    \/ Serve \/ Drive \/ Nested
    \/ FuncServeHTTP \/ FuncNext

SpecAdapted == Init /\ [][NextAdapted]_vars

\* Instances as handlers of instances, to any depth the bounds allow.
NextNested ==
    Construct({HandlerFunc("plain")}, NestPipes, NestTotal) \/ Serve \/ Drive \/ Nested

SpecNested == Init /\ [][NextNested]_vars

\* Building instances, also from slices the caller holds.
NextAliased ==
    \/ Construct(ChainHandlers, AliasPipes, AliasTotal)
    \/ ConstructPassed(AliasPipes, AliasTotal)

SpecAliased == Init /\ [][NextAliased]_vars

\* Building instances and resolving them.
NextResolve ==
    \/ Construct(ChainHandlers, ResolvePipes, ResolveTotal)
    \/ \E m \in PipeIds(pipes) : Resolve(m, MaxResolves)

SpecResolve == Init /\ [][NextResolve]_vars

\* Requests served while the process-wide extractor is set and set again.
Extractors == {"default", "custom"}

NextParams ==
    \/ /\ Len(pipes) < ParamPipes
       /\ \E handlers \in Arguments(pipes, {HandlerFunc("plain")}, Len(pipes) + 1, ParamTotal) :
             New(Listed(handlers))
    \/ \E m \in PipeIds(pipes) : H(m, HandlerFunc("plain"), ParamEntries)
    \/ \E extractor \in Extractors : SetURLParamsExtractor(extractor)
    \/ Serve
    \/ \E e \in DOMAIN entries : EntryServeHTTP(e, ServerObjects.w, ServerObjects.r)
    \/ Drive \/ Nested

SpecParams == Init /\ [][NextParams]_vars

\* http.Handlers made by H from instances and their forks, each with a last
\* handler of its own.
Terminals == {HandlerFunc("next"), HandlerFunc("abort")}

NextEntries ==
    \/ Construct({HandlerFunc("plain")}, EntryPipes, EntryTotal)
    \/ \E m \in PipeIds(pipes) : \E h \in Terminals : H(m, h, MaxEntries)
    \/ \E e \in DOMAIN entries : EntryServeHTTP(e, ServerObjects.w, ServerObjects.r)
    \/ ServeHTTPNext \/ ServeHTTPReturn
    \/ Drive \/ Nested
    \/ Functions

SpecEntries == Init /\ [][NextEntries]_vars

\* One instance holding no nested instance, with handlers that call Next
\* twice.  The goroutine that serves the request is scheduled again and again,
\* and every handler returns.
OnceHandlers ==
    {HandlerFunc("plain"), HandlerFunc("next"), HandlerFunc("nextNext"), HandlerFunc("abortNext")}

Serving == ServeHTTPNext \/ ServeHTTPReturn \/ Drive \/ Functions

NextOnce ==
    \/ /\ Len(pipes) < 1
       /\ \E handlers \in Arguments(pipes, OnceHandlers, 1, OnceTotal) : New(Listed(handlers))
    \/ \E m \in PipeIds(pipes) : ServeHTTP(m, ServerObjects.w, ServerObjects.r)
    \/ Serving

SpecOnce == Init /\ [][NextOnce]_vars /\ WF_vars(Serving)

\* One instance whose handlers call Next, Abort and WithValue and substitute
\* the transport objects, served with either extractor.
FrameHandlers ==
    {HandlerFunc("next"), HandlerFunc("abort"), HandlerFunc("key1"),
     WrapHandlerMiddleware("swapA")}

NextFrame ==
    \/ /\ Len(pipes) < 1
       /\ \E handlers \in Arguments(pipes, FrameHandlers, 1, FrameTotal) : New(Listed(handlers))
    \/ /\ status = "idle"
       /\ \E extractor \in Extractors : SetURLParamsExtractor(extractor)
    \/ Serve \/ Drive
    \/ Functions \/ FuncWith
    \/ MiddlewareCallsInner \/ MiddlewareCheck

SpecFrame == Init /\ [][NextFrame]_vars

\* Two requests served at once by one instance, or by one http.Handler made
\* by H, whose handlers abort, set values and substitute the transport objects.
TwoHandlers ==
    {HandlerFunc("plain"), HandlerFunc("abort"), HandlerFunc("key1"),
     WrapHandlerMiddleware("swapA")}

BothIdle == status = "idle" /\ other.status = "idle"

NextTwo ==
    \/ /\ Len(pipes) < 1
       /\ BothIdle
       /\ \E handlers \in Arguments(pipes, TwoHandlers, 1, TwoTotal) : New(Listed(handlers))
    \/ /\ BothIdle
       /\ \E m \in PipeIds(pipes) : H(m, HandlerFunc("plain"), TwoEntries)
    \/ \E m \in PipeIds(pipes) :
          ServeHTTP(m, RequestObjects(Current).w, RequestObjects(Current).r)
    \/ \E e \in DOMAIN entries :
          EntryServeHTTP(e, RequestObjects(Current).w, RequestObjects(Current).r)
    \/ ServeHTTPNext \/ ServeHTTPReturn
    \/ Drive
    \/ FuncAbort \/ FuncWith
    \/ MiddlewareCallsInner \/ MiddlewareCheck
    \/ Switch

SpecTwo == Init /\ [][NextTwo]_vars

\* Requests served while other goroutines register extractors.
NextRacing ==
    \/ /\ Len(pipes) < ParamPipes
       /\ \E handlers \in Arguments(pipes, {HandlerFunc("plain")}, Len(pipes) + 1, ParamTotal) :
             New(Listed(handlers))
    \/ \E m \in PipeIds(pipes) : H(m, HandlerFunc("plain"), ParamEntries)
    \/ \E g \in Goroutines :
          \/ \E extractor \in Extractors : SetURLParamsExtractorLock(g, extractor)
          \/ SetURLParamsExtractorStore(g)
          \/ SetURLParamsExtractorUnlock(g)
    \/ Serve
    \/ \E e \in DOMAIN entries : EntryServeHTTP(e, ServerObjects.w, ServerObjects.r)
    \/ Drive \/ Nested

SpecRacing == Init /\ [][NextRacing]_vars

\* Chains of handlers that set values of the scope.
ValueHandlers == {HandlerFunc("key1"), HandlerFunc("key2"), HandlerFunc("other")}

NextValues ==
    \/ /\ Len(pipes) < ValuePipes
       /\ \E handlers \in Arguments(pipes, ValueHandlers, Len(pipes) + 1, ValueTotal) :
             New(Listed(handlers))
    \/ Serve \/ Drive \/ Nested
    \/ FuncWith

SpecValues == Init /\ [][NextValues]_vars

\* Chains of handlers that layer cancellations and deadlines on the scope.
CancelHandlers == {HandlerFunc("cancel"), HandlerFunc("timeout"), HandlerFunc("key1")}

NextCancel ==
    \/ /\ Len(pipes) < CancelPipes
       /\ \E handlers \in Arguments(pipes, CancelHandlers, Len(pipes) + 1, CancelTotal) :
             New(Listed(handlers))
    \/ Serve \/ Drive \/ Nested
    \/ FuncWith \/ FuncNext \/ FuncCancel
    \/ TimerFires

SpecCancel == Init /\ [][NextCancel]_vars

\* Chains with a handler that panics.
FaultHandlers == {HandlerFunc("plain"), HandlerFunc("next"), HandlerFunc("panic")}

NextFault ==
    \/ /\ Len(pipes) < FaultPipes
       /\ \E handlers \in Arguments(pipes, FaultHandlers, Len(pipes) + 1, FaultTotal) :
             New(Listed(handlers))
    \/ Serve \/ Drive \/ Nested
    \/ FuncNext \/ FuncPost \/ FuncPanic

SpecFault == Init /\ [][NextFault]_vars

\* Chains about as long as MaxHandlers: a handler that aborts, followed by
\* handlers that do nothing.
LongHandlers ==
    {HandlerFunc("plain"), HandlerFunc("abort"), HandlerFunc("abortNext"),
     WrapHandlerMiddleware("skip")}
LongLengths == {0, 1, MaxHandlers - 1, MaxHandlers, MaxHandlers + 1}

\* The cursor is in the padding, and not at its last handler.
InPadding == 1 <= ctx.index /\ ctx.index < Padding

\* The loop of Next over the padding: each handler is invoked, does nothing and
\* returns, and the cursor is incremented, up to the last handler of the padding.
NextThroughPadding ==
    /\ Running /\ Top.f = "Next" /\ Top.pc = "test"
    /\ ctx.index < Top.s
    /\ InPadding
    /\ Padding < Top.s
    /\ ctx' = [ctx EXCEPT !.index = Padding]
    /\ UNCHANGED <<pipes, entries, urlParamsExtractor, stack, status, log, extra, elsewhere>>

\* p1 := New(plain), then the padded p2 := New(first, ...), New(first, ..., p1)
\* or New(first, ..., abort); requests are served by p2.  A drive is followed
\* for LongLog events.
NextLong ==
    \/ /\ Len(pipes) = 0
       /\ New(Listed(<<HandlerFunc("plain")>>))
    \/ /\ Len(pipes) = 1
       /\ \E first \in LongHandlers, n \in LongLengths :
             \E last \in {<<>>, <<MezvaroHandler(1)>>, <<HandlerFunc("abort")>>} :
                 NewPadded(Listed(<<first>> \o last), n)
    \/ /\ Len(pipes) = 2
       /\ ServeHTTP(2, ServerObjects.w, ServerObjects.r)
    \/ ServeHTTPNext \/ ServeHTTPReturn
    \/ (~InPadding /\ Len(log) < LongLog /\ NextInvoke) \/ NextThroughPadding
    \/ NextIncrement \/ NextReturn \/ HandlerReturn
    \/ Nested
    \/ FuncAbort \/ FuncNext
    \/ MiddlewareSkips \/ MiddlewareCheck

SpecLong == Init /\ [][NextLong]_vars

\* What the goroutines layer on the scope of the context they share.
ConcurrentLayers == {valueCtx("a", "1"), valueCtx("b", "2"), cancelCtx, timerCtx(1)}

\* One request, and goroutines that call With* methods on its context.
NextConcurrent ==
    \/ /\ Len(pipes) < 1
       /\ \E handlers \in Arguments(pipes, {HandlerFunc("plain")}, 1, 1) : New(Listed(handlers))
    \/ Serve \/ Drive
    \/ \E g \in Goroutines :
          \/ \E layer \in ConcurrentLayers : WithCall(g, layer, MaxScopes)
          \/ WithLock(g)
          \/ WithDerive(g)
          \/ WithStore(g)
          \/ WithUnlock(g)

SpecConcurrent == Init /\ [][NextConcurrent]_vars

\* Entry points built by H, and handlers that call Use during the drive.
NextInFlight ==
    \/ Construct(FlightHandlers, FlightPipes, FlightTotal)
    \/ \E m \in PipeIds(pipes) : H(m, HandlerFunc("plain"), FlightEntries)
    \/ Serve
    \/ \E e \in DOMAIN entries : EntryServeHTTP(e, ServerObjects.w, ServerObjects.r)
    \/ Drive \/ Nested
    \/ FuncUse(2 * FlightTotal)

SpecInFlight == Init /\ [][NextInFlight]_vars

\* One instance of at most one handler, and a caller that goes on calling
\* Next() on the context after the drive.
NextDrift ==
    \/ /\ Len(pipes) < 1
       /\ \E handlers \in Arguments(pipes, DriftHandlers, 1, 1) : New(Listed(handlers))
    \/ Serve \/ Drive
    \/ FuncAbort \/ FuncNext
    \/ ExternalNext(MaxHandlers)

SpecDrift == Init /\ [][NextDrift]_vars

----------------------------------------------------------------------------
\* Reading the log.

Events(ev) == {k \in DOMAIN log : log[k].ev = ev}

\* The handler activation an event belongs to: chain number and position.
At(k) == <<log[k].g, log[k].i>>

Objects(k) == [w |-> log[k].w, r |-> log[k].r]

\* The instance ServeHTTP was called on.
Served == log[1].h.p

\* The chain number g: the one the context was created with, or the one the
\* g-th call of Mezvaro.Handle bound to it.
ChainOf(g) ==
    IF g = 0 THEN wholeChain(pipes, Served)
    ELSE LET k == CHOOSE j \in Events("rebind") :
                      Cardinality({x \in Events("rebind") : x <= j}) = g
         IN wholeChain(pipes, log[k].h.p)

\* The handlers invoked at positions of chain g from event `from` on, in the
\* order of their invocation.
InvokedOf(g, from) ==
    LET es == SelectSeq(SubSeq(log, from, Len(log)), LAMBDA e : e.ev = "invoke" /\ e.g = g)
    IN [k \in 1..Len(es) |-> es[k].h]

\* How often position i of chain g was invoked.
TimesInvoked(g, i) == Cardinality({k \in Events("invoke") : At(k) = <<g, i>>})

\* The positions of chain g after position i.
Downstream(g, i) == (i + 1)..(Len(ChainOf(g)) - 1)

NoAbort == Events("abort") = {}

----------------------------------------------------------------------------
\* C1: the resolved chain of every instance built by New, Use and Fork is the
\* own handlers of its ancestors, oldest ancestor first, each list in append
\* order, followed by its own handlers.

RECURSIVE AncestorsThenOwn(_, _)
AncestorsThenOwn(ps, m) ==
    IF ps[m].parent = Nil THEN ps[m].handlerChain
    ELSE AncestorsThenOwn(ps, ps[m].parent) \o ps[m].handlerChain

ResolvedChainIsAncestorsThenOwn ==
    \A m \in PipeIds(pipes) : wholeChain(pipes, m) = AncestorsThenOwn(pipes, m)

\* A fork of a fork, the three own lists holding different handlers.
ForkOfForkResolved ==
    \E m \in PipeIds(pipes) :
        /\ pipes[m].parent # Nil
        /\ pipes[pipes[m].parent].parent # Nil
        /\ LET p == pipes[m].parent
               q == pipes[p].parent
           IN /\ Len(pipes[q].handlerChain) = 2
              /\ pipes[p].handlerChain # <<>>
              /\ pipes[m].handlerChain # <<>>
              /\ pipes[q].handlerChain[1] # pipes[q].handlerChain[2]
              /\ pipes[p].handlerChain[1] # pipes[m].handlerChain[1]

----------------------------------------------------------------------------
\* C2: a drive by ServeHTTP in which no handler aborts or faults invokes the
\* handlers of the instance's resolved chain, each once, in resolved order;
\* with an empty chain it invokes nothing and returns.

ServeInvokesResolvedChainInOrder ==
    /\ (status = "returned" /\ NoAbort) => InvokedOf(0, 1) = ChainOf(0)
    /\ (status # "idle" /\ ChainOf(0) = <<>>) =>
           (status # "panicked" /\ Events("invoke") = {})

----------------------------------------------------------------------------
\* C3: once a handler has called Abort, no handler is invoked any more in the
\* drive; the handler that aborted was invoked exactly once; and IsAborted()
\* is true when the drive has returned.

AbortHaltsRemainder ==
    \A k \in Events("abort") :
        /\ \A j \in Events("invoke") : j < k
        /\ TimesInvoked(log[k].g, log[k].i) = 1
        /\ status = "returned" => IsAborted(ctx)

\* The drive has returned after a handler aborted that had a successor.
AbortedBeforeSuccessor ==
    /\ status = "returned"
    /\ \E k \in Events("abort") : Downstream(log[k].g, log[k].i) # {}

----------------------------------------------------------------------------
\* C4: a handler that returns without calling Next or Abort does not stop the
\* chain: when nothing aborts, its successors are invoked after it, each once,
\* in order.

PlainHandlerDoesNotStopChain ==
    (status = "returned" /\ NoAbort) =>
        \A k \in Events("invoke") :
            log[k].h = HandlerFunc("plain") =>
                InvokedOf(log[k].g, k + 1)
                    = SubSeq(ChainOf(log[k].g), log[k].i + 2, Len(ChainOf(log[k].g)))

----------------------------------------------------------------------------
\* C5: when every handler calls Next once or not at all and none aborts, one
\* drive invokes every handler of the chain exactly once.

EveryHandlerInvokedExactlyOnce ==
    (status = "returned" /\ NoAbort) =>
        \A g \in 0..Generation(log) :
            \A i \in 0..(Len(ChainOf(g)) - 1) : TimesInvoked(g, i) = 1

----------------------------------------------------------------------------
\* C6: when nothing aborts, the code a handler has after its call of Next runs
\* after every handler at a later position has been invoked and has returned,
\* and such sections of nested callers run in reverse chain order.

NextReturnsAfterDownstream ==
    NoAbort =>
        \A k \in Events("post") :
            /\ \A i \in Downstream(log[k].g, log[k].i) :
                   \E a \in Events("invoke") : \E b \in Events("return") :
                       /\ a < b /\ b < k
                       /\ At(a) = <<log[k].g, i>> /\ At(b) = <<log[k].g, i>>
            /\ \A j \in Events("post") :
                   (j > k /\ log[j].g = log[k].g) => log[j].i < log[k].i

----------------------------------------------------------------------------
\* C7: a call of Next on a context that is exhausted or aborted is a no-op:
\* the loop test fails at once, so no handler is invoked and the call returns,
\* and IsAborted() answers after the call what it answered before.

Spent(c) == status # "idle" /\ (IsAborted(c) \/ c.index >= Len(c.handlerChain))

NextIsCalled == Len(stack') = Len(stack) + 1 /\ stack'[Len(stack')].f = "Next"

NextOnSpentContextIsNoOp ==
    [][(NextIsCalled /\ Spent(ctx)) =>
           /\ ~(ctx'.index < stack'[Len(stack')].s)
           /\ IsAborted(ctx') = IsAborted(ctx)]_vars

----------------------------------------------------------------------------
\* C8: when the handler a middleware returns does not call the inner handler,
\* the adapter made by WrapHandlerMiddleware aborts: no handler is invoked
\* after the adapter, and IsAborted() is true when the drive has returned.

SkippingMiddlewareAborts ==
    \A k \in Events("invoke") :
        log[k].h = WrapHandlerMiddleware("skip") =>
            /\ \A j \in Events("invoke") : j <= k
            /\ status = "returned" => IsAborted(ctx)

\* The drive has returned after such an adapter ran before another handler.
SkippedBeforeSuccessor ==
    /\ status = "returned"
    /\ \E k \in Events("invoke") :
           /\ log[k].h = WrapHandlerMiddleware("skip")
           /\ Downstream(log[k].g, log[k].i) # {}

----------------------------------------------------------------------------
\* C9: the objects a middleware passes to its inner handler, when they differ
\* from the ones it received, replace the context's Response and Request.

\* An inner handler was called with other objects than the outer one.
Substitutions == {k \in Events("inner") : Objects(k) # Objects(k - 1)}

\* C9 as claimed: every handler invoked afterwards observes them, and the
\* context holds them when the drive has returned.
SubstitutedObjectsSeenByAllDownstream ==
    \A k \in Substitutions :
        /\ \A j \in Events("invoke") : j > k => Objects(j) = Objects(k)
        /\ status = "returned" => Held(ctx) = Objects(k)

\* The first call of an inner handler after event k with objects other than
\* those of k, or the end of the log.
NextOtherObjects(k) ==
    LET later == {j \in Events("inner") : j > k /\ Objects(j) # Objects(k)}
    IN IF later = {} THEN Len(log) + 1
       ELSE CHOOSE j \in later : \A x \in later : j <= x

\* C9 as amended: every handler invoked afterwards observes them until a
\* later middleware passes other objects to its inner handler in turn; the
\* context goes on holding them, also when the middleware and the drive have
\* returned, unless that has happened.
SubstitutedObjectsKeptUntilSubstitutedAgain ==
    \A k \in Substitutions :
        /\ \A j \in Events("invoke") :
               (j > k /\ j < NextOtherObjects(k)) => Objects(j) = Objects(k)
        /\ NextOtherObjects(k) > Len(log) => Held(ctx) = Objects(k)

\* The drive has returned; a middleware substituted objects, a handler was
\* invoked after that, and the context holds the substitutes.
SubstitutedAndReturned ==
    /\ status = "returned"
    /\ \E k \in Substitutions :
           /\ \E j \in Events("invoke") : j > k
           /\ \E j \in Events("return") : j > k /\ At(j) = At(k)
           /\ Held(ctx) = Objects(k)
           /\ Held(ctx) # ServerObjects

----------------------------------------------------------------------------
\* C10: the adapter made by WrapHandlerMiddleware calls the outer handler once
\* per invocation, with the Response and Request the context holds then; when
\* the outer handler calls the inner one once and nothing aborts, each of the
\* remaining handlers runs once and the context is not aborted after the drive.

MiddlewareCallsOuterOnceAndContinues ==
    /\ \A k \in Events("invoke") :
           log[k].h.k = "mw" =>
               LET outer == {j \in Events("outer") : At(j) = At(k)}
               IN /\ Cardinality(outer) <= 1
                  /\ status = "returned" => Cardinality(outer) = 1
                  /\ \A j \in outer : j = k + 1 /\ Objects(j) = Objects(k)
    /\ (status = "returned" /\ NoAbort) =>
           /\ \A k \in Events("inner") :
                  \A i \in Downstream(log[k].g, log[k].i) : TimesInvoked(log[k].g, i) = 1
           /\ ~IsAborted(ctx)

----------------------------------------------------------------------------
\* C11: a handler made by WrapHandler or WrapHandlerFunc calls the wrapped
\* handler once, with the Response and Request the context holds, and then
\* Next; when nothing aborts, every handler after it is invoked exactly once
\* and the context is not aborted when the drive has returned.

WrappedHandlerIsTransparent ==
    /\ \A k \in Events("invoke") :
           log[k].h = WrapHandler =>
               LET served == {j \in Events("wrapped") : At(j) = At(k)}
                   called == {j \in Events("next") : At(j) = At(k)}
               IN /\ Cardinality(served) <= 1 /\ Cardinality(called) <= 1
                  /\ \A j \in served : j = k + 1 /\ Objects(j) = Objects(k)
                  /\ \A j \in called : j = k + 2
                  /\ status = "returned" => (served # {} /\ called # {})
    /\ (status = "returned" /\ NoAbort) =>
           /\ \A k \in Events("invoke") :
                  log[k].h = WrapHandler =>
                      \A i \in Downstream(log[k].g, log[k].i) : TimesInvoked(log[k].g, i) = 1
           /\ ~IsAborted(ctx)

----------------------------------------------------------------------------
\* C12: Handle of an instance P on a context makes no new context: Response,
\* Request, URL parameters and scope stay, the chain becomes P's resolved chain
\* and the cursor -1; and, when nothing aborts, the drive invokes every handler
\* of that chain exactly once, in order.

\* The step is the rebinding done by Handle of instance m.
Rebinds(m) ==
    /\ Len(log') = Len(log) + 1
    /\ log'[Len(log')].ev = "rebind"
    /\ log'[Len(log')].h = MezvaroHandler(m)

HandleRebindsTheSameContext ==
    /\ [][\A m \in PipeIds(pipes) :
             Rebinds(m) =>
                 /\ ctx'.Response = ctx.Response /\ ctx'.Request = ctx.Request
                 /\ ctx'.urlParams = ctx.urlParams /\ ctx'.netCtx = ctx.netCtx
                 /\ ctx'.handlerChain = wholeChain(pipes, m)
                 /\ ctx'.index = -1]_vars
    /\ []((status = "returned" /\ NoAbort) =>
              \A g \in 1..Generation(log) : InvokedOf(g, 1) = ChainOf(g))

----------------------------------------------------------------------------
\* C13: Fork changes nothing of the instance it is called on, own handlers,
\* parent and resolved chain; and a later Use on the fork leaves the resolved
\* chain of that instance as it was.

\* The step is a call of Fork.
Forks == Len(pipes') = Len(pipes) + 1 /\ pipes'[Len(pipes')].parent # Nil

\* The step is a call of Use on instance m.
Uses(m) ==
    /\ Len(pipes') = Len(pipes)
    /\ Len(pipes'[m].handlerChain) > Len(pipes[m].handlerChain)

ForkLeavesParentAlone ==
    [][/\ Forks =>
              \A q \in PipeIds(pipes) :
                  /\ pipes'[q].handlerChain = pipes[q].handlerChain
                  /\ pipes'[q].parent = pipes[q].parent
                  /\ wholeChain(pipes', q) = wholeChain(pipes, q)
       /\ \A m \in PipeIds(pipes) :
              (Uses(m) /\ pipes[m].parent # Nil) =>
                  wholeChain(pipes', pipes[m].parent) = wholeChain(pipes, pipes[m].parent)]_vars

----------------------------------------------------------------------------
\* C14: Fork makes an instance that holds the handlers of the instance it is
\* called on, copied, followed by the handlers it is given: n + k own handlers
\* for an instance of n own handlers forked with k.

ForkHoldsCopiedThenGiven ==
    [][\A m \in PipeIds(pipes) : \A handlers \in HandlerLists(ChainHandlers, ChainTotal) :
           Fork(m, Listed(handlers)) =>
               /\ pipes'[Len(pipes')].handlerChain = pipes[m].handlerChain \o handlers
               /\ Len(pipes'[Len(pipes')].handlerChain)
                      = Len(pipes[m].handlerChain) + Len(handlers)]_vars

----------------------------------------------------------------------------
\* C15: a Use on an ancestor of an instance that was forked before is not
\* visible to that instance: its resolved chain stays the ancestors' chains as
\* they were when it was forked, followed by its own handlers.

\* The instances m was forked from, directly or not.
Ancestors(ps, m) == {parents(ps, m)[j] : j \in 2..Len(parents(ps, m))}

UseOnAncestorNotVisibleToFork ==
    [][\A m \in PipeIds(pipes) : \A child \in PipeIds(pipes) :
           (Uses(m) /\ m \in Ancestors(pipes, child)) =>
               wholeChain(pipes', child) = wholeChain(pipes, child)]_vars

----------------------------------------------------------------------------
\* C16: the chain a context runs is the one resolved when the context was
\* made (by ServeHTTP or by an entry point of H) or rebound (by Handle): a Use
\* on an instance during the drive changes neither which handlers the drive
\* invokes nor their order.

\* The chain the context was given when chain number g was bound to it.
SnapshotOf(g) ==
    IF g = 0 THEN log[1].chain
    ELSE LET k == CHOOSE j \in Events("rebind") :
                      Cardinality({x \in Events("rebind") : x <= j}) = g
         IN log[k].chain

DriveRunsSnapshot ==
    status # "idle" =>
        /\ ctx.handlerChain = SnapshotOf(Generation(log))
        /\ \A k \in Events("invoke") :
               /\ log[k].i < Len(SnapshotOf(log[k].g))
               /\ log[k].h = SnapshotOf(log[k].g)[log[k].i + 1]
        /\ (status = "returned" /\ Generation(log) = 0) => InvokedOf(0, 1) = SnapshotOf(0)

\* The drive has returned; a handler called Use on the instance served or on
\* an ancestor of it, so that it resolves to another chain now, and a handler
\* was invoked after that.
UsedDuringDrive ==
    /\ status = "returned"
    /\ log[1].h.k = "pipe"
    /\ wholeChain(pipes, Served) # SnapshotOf(0)
    /\ \E k \in Events("use") : \E j \in Events("invoke") : j > k

----------------------------------------------------------------------------
\* C17: the entry point made by m.H(h) behaves as if the chain were resolved
\* for every request: it drives the chain m resolves to when the request
\* comes, followed by h, and these are the handlers it invokes, in order.

EntryResolvesAtRequest ==
    (status # "idle" /\ log[1].h.k = "entry") =>
        LET e   == entries[log[1].h.p]
            now == wholeChain(pipes, e.m) \o <<e.h>>
        IN /\ Events("use") = {} => log[1].chain = now
           /\ (status = "returned" /\ Events("use") = {} /\ Generation(log) = 0) =>
                  InvokedOf(0, 1) = now

----------------------------------------------------------------------------
\* C18: wholeChain() only reads: a call changes no instance, neither the one
\* it is called on nor an ancestor, and what it returns is what a second call
\* on the instance, unmodified, returns.

\* The step is a call of wholeChain() on instance m.
Resolves(m) ==
    /\ Len(log') = Len(log) + 1
    /\ log'[Len(log')].ev = "resolve"
    /\ log'[Len(log')].h = MezvaroHandler(m)

----------------------------------------------------------------------------
\* C19: a call of Use with k handlers leaves the receiver with the handlers
\* it had, unchanged, followed by the k handlers in argument order, and with
\* the parent it had; New(h1..hk) gives an instance whose own list is exactly
\* h1..hk and which has no parent.  (UseFunc, UseHandler, UseHandlerFunc and
\* UseHandlerMiddleware adapt each argument in order and call Use once.)
\* The argument lists a call may have passed that left `list` behind: lists
\* of k of the handlers found in it.
Given(list, k) == [1..k -> {list[j] : j \in DOMAIN list}]

----------------------------------------------------------------------------
\* C20: while the extractor is the default one, a context is created with a
\* nil parameter map, UrlParam gives "" for every name, and no step of the
\* drive, a re-binding by Handle included, gives the context another map.

\* The names of TestCustomParamsExtractor and one nothing registers.
ParamNames == {"param", "missing"}

\* The step creates the context of a request.
Creates == status = "idle" /\ status' = "running"

DefaultExtractorGivesNoParams ==
    [][/\ (Creates /\ urlParamsExtractor = "default") =>
              /\ ctx'.urlParams = NilMap
              /\ \A name \in ParamNames : UrlParam(ctx', name) = ""
       /\ (status = "running" /\ ctx.urlParams = NilMap) =>
              /\ ctx'.urlParams = NilMap
              /\ \A name \in ParamNames : UrlParam(ctx', name) = ""]_vars

\* A request was served to its end under the default extractor, through an
\* instance nested in the one that served it.
ServedWithoutParams ==
    /\ status = "returned"
    /\ ctx.urlParams = NilMap
    /\ Events("rebind") # {}
    /\ Events("invoke") # {}

----------------------------------------------------------------------------
\* C21: a context is created with what the extractor registered last gives
\* for its request, be it created by ServeHTTP or by an entry point that H
\* built earlier, and it keeps that map through the drive, whatever is
\* registered meanwhile and whichever instance re-binds it.
ContextKeepsParamsOfItsCreation ==
    [][/\ Creates => ctx'.urlParams = ExtractParams(urlParamsExtractor, ctx'.Request)
       /\ \A extractor \in Extractors :
              SetURLParamsExtractor(extractor) => urlParamsExtractor' = extractor
       /\ status = "running" => ctx'.urlParams = ctx.urlParams]_vars

\* An entry point served a request with the parameters of the registered
\* extractor, through a nested instance, and the default extractor was put
\* back while the request was served.
ServedWithParamsOfCreation ==
    /\ status = "returned"
    /\ log[1].h.k = "entry"
    /\ Events("rebind") # {}
    /\ ctx.urlParams = customURLParamsExtractor(ctx.Request)
    /\ UrlParam(ctx, "param") = "value"
    /\ urlParamsExtractor = "default"

----------------------------------------------------------------------------
\* C22: the extractor is written with paramsExtractorLock held by the writer,
\* and it is never read, by ServeHTTP or by an entry point creating a context,
\* while another goroutine holds the lock to replace it -- which the reader
\* holding the lock itself would ensure.
ExtractorAccessedUnderLock ==
    [][/\ urlParamsExtractor' # urlParamsExtractor =>
              \E g \in Goroutines : paramsExtractorLock = g /\ goroutines[g].pc = "store"
       /\ Creates => paramsExtractorLock \notin Goroutines]_vars

----------------------------------------------------------------------------
\* C23: a With* call installs, in one step as the other callers see it, the
\* scope derived from the scope the context has at that moment: what calls
\* that run at the same time installed stays layered below, and no step takes
\* a layer away.

IsPrefix(a, b) == Len(a) <= Len(b) /\ SubSeq(b, 1, Len(a)) = a

WithUpdatesAreNotLost ==
    [][/\ \A g \in Goroutines :
             (goroutines[g].pc = "with.store" /\ goroutines'[g].pc = "with.unlock") =>
                 ctx'.netCtx = Layered(ctx.netCtx, goroutines[g].arg, NewId(ctx.netCtx, g))
       /\ status # "idle" => IsPrefix(ctx.netCtx, ctx'.netCtx)]_vars

\* Two calls are under way at once, one past its write and one waiting for
\* the mutex, and the values both goroutines set are there.
ConcurrentWithCalls ==
    \E g \in Goroutines : \E h \in Goroutines \ {g} :
        /\ goroutines[g].pc = "with.unlock"
        /\ goroutines[h].pc = "with.lock"
        /\ Value(ctx, "a") = "1"
        /\ Value(ctx, "b") = "2"

----------------------------------------------------------------------------
\* C24: Deadline, Done, Err and Value answer from the scope the context holds
\* (they are defined on c.netCtx).  A WithValue(k, v) makes Value(k) give v and
\* leaves the values of the other keys as they were; no other step of a drive,
\* a re-binding by Handle included, changes the scope; a key never set gives
\* nil; and every handler invoked after a WithValue(k, v), and before the next
\* WithValue of k, finds v.

\* The keys the handlers set, and one no handler sets.
ScopeKeys == {"key", "other", "unset"}

\* What a handler finds in the scope when it is invoked (event j).
Found(j, key) == Value([NoContext EXCEPT !.netCtx = log[j].scope], key)

\* The layer the With* call of event k made.
LayerOf(k) == log[k].scope[Len(log[k].scope)]

ValuesAreKeptForLaterHandlers ==
    /\ [][status = "running" =>
             IF Len(log') = Len(log) + 1 /\ log'[Len(log')].ev = "with"
             THEN LET layer == LayerOf(Len(log))'
                  IN /\ Value(ctx', layer.key) = layer.val
                     /\ \A key \in ScopeKeys \ {layer.key} : Value(ctx', key) = Value(ctx, key)
             ELSE ctx'.netCtx = ctx.netCtx]_vars
    /\ [](/\ Value(ctx, "unset") = "nil"
          /\ \A k \in Events("with") : \A j \in Events("invoke") :
                 (/\ k < j
                  /\ \A n \in Events("with") : (k < n /\ n < j) => LayerOf(n).key # LayerOf(k).key)
                     => Found(j, LayerOf(k).key) = LayerOf(k).val)

\* A handler was invoked, by an instance nested in the one serving, after a
\* value was set and set again, and the value of another key is there too.
ShadowedValueFound ==
    /\ Value(ctx, "key") = "v2"
    /\ Value(ctx, "other") = "o"
    /\ \E j \in Events("invoke") :
           /\ Found(j, "key") = "v2"
           /\ \E k \in Events("with") : k < j /\ LayerOf(k).val = "v1"
           /\ \E n \in Events("rebind") : n < j

----------------------------------------------------------------------------
\* C25: when a handler calls the CancelFunc it got from WithCancel,
\* WithDeadline or WithTimeout, Done is closed and Err is not nil; and once
\* Done is closed it stays closed, with the same error, whatever is layered on
\* the scope afterwards and whichever instance re-binds the context.
CancelledStaysCancelled ==
    [][/\ (Len(log') = Len(log) + 1 /\ log'[Len(log')].ev = "cancel") =>
              Done(ctx', done') /\ Err(ctx', done') # "nil"
       /\ Done(ctx, done) =>
              Done(ctx', done') /\ Err(ctx', done') = Err(ctx, done)]_vars

\* After a CancelFunc was called, a With* call was made and an instance
\* re-bound the context, and the request was served to its end.
LayeredAfterCancel ==
    /\ status = "returned"
    /\ Err(ctx, done) = "Canceled"
    /\ \E k \in Events("cancel") :
           /\ \E n \in Events("with") : k < n
           /\ \E n \in Events("rebind") : k < n

----------------------------------------------------------------------------
\* C26: where no handler recovers, the panic of a handler ends the drive: the
\* caller of ServeHTTP gets it, no frame of the drive is left, and nothing
\* runs afterwards, neither a handler nor the code an upstream handler has
\* after its call of Next.
FaultEndsTheDrive ==
    /\ [](\A k \in Events("panic") :
              k = Len(log) /\ status = "panicked" /\ stack = <<>>)
    /\ [][Events("panic") # {} => (log' = log /\ ctx' = ctx /\ status' = status)]_vars

\* A handler panicked below a handler that had called Next and has code
\* after it, with handlers left in the chain.
FaultBelowNext ==
    \E k \in Events("panic") :
        /\ \E n \in Events("next") : n < k
        /\ Events("post") = {}
        /\ log[k].i + 1 < Len(log[k].chain)

----------------------------------------------------------------------------
\* C27: when an instance is invoked at position i of a chain and nothing
\* aborts, the drive ends with the handlers at positions i+1.. of that chain
\* invoked after it, each once, in order.
OuterChainGoesOnAfterInstance ==
    (status \in {"returned", "panicked"} /\ NoAbort) =>
        \A k \in Events("invoke") :
            log[k].h.k = "pipe" =>
                InvokedOf(log[k].g, k + 1)
                    = SubSeq(ChainOf(log[k].g), log[k].i + 2, Len(ChainOf(log[k].g)))

----------------------------------------------------------------------------
\* C28: where the loop of Next is about to invoke a handler, the cursor is an
\* index of the chain the context holds.
CursorIsAnIndexWhenInvoking ==
    (Running /\ Top.f = "Next" /\ Top.pc = "test" /\ ctx.index < Top.s) =>
        (0 <= ctx.index /\ ctx.index < Len(ctx.handlerChain))

----------------------------------------------------------------------------
\* C29: on every chain that New, Use, Fork and H can build, once Abort has been
\* called the test of the loop of Next, cursor < chain length, is false
\* whenever it is made.
AbortSentinelEndsEveryChain ==
    (Events("abort") # {} /\ Running /\ Top.f = "Next" /\ Top.pc = "test") =>
        ~(ctx.index < Top.s /\ ctx.index < ChainLength(ctx))

----------------------------------------------------------------------------
\* C30: the states of a context, read where no handler is executing: in
\* ServeHTTP, in the loop of the Next that ServeHTTP called, and after the
\* drive.
NoHandlerExecuting ==
    /\ status \in {"running", "returned"}
    /\ \A k \in DOMAIN stack : stack[k].f \in {"ServeHTTP", "Next"}

BeforeStart(c) == c.index = -1
Exhausted(c) == c.index = ChainLength(c)
Overshot(c) == c.index > ChainLength(c) /\ ~IsAborted(c)
InChain(c) == 0 <= c.index /\ c.index < ChainLength(c) /\ ~IsAborted(c)

\* Next calls made by handlers of the drive: handler functions and adapters,
\* instances (Mezvaro.Handle ends with c.Next()), and the inner handler that
\* WrapHandlerMiddleware gives to a middleware.
NextCalls == Events("next") \cup Events("rebind") \cup Events("inner")

\* C30 as the specification states it: where no handler is executing the
\* cursor is -1, an index of the chain, the chain length, or at least
\* MaxHandlers, and a drive that returns without Abort leaves the cursor at the
\* chain length.
CursorEndsAtChainLength ==
    NoHandlerExecuting =>
        /\ BeforeStart(ctx) \/ InChain(ctx) \/ Exhausted(ctx) \/ IsAborted(ctx)
        /\ (status = "returned" /\ extra = 0 /\ NoAbort) => Exhausted(ctx)

\* C30, amended: where no handler is executing the cursor is -1 (only before
\* ServeHTTP has called Next), an index of the chain, at least the chain length
\* and below MaxHandlers, or at least MaxHandlers; a drive that returns without
\* Abort leaves the cursor at the chain length if no handler called Next and
\* above it if one did.
CursorEndsAtOrAboveChainLength ==
    NoHandlerExecuting =>
        /\ BeforeStart(ctx) \/ InChain(ctx) \/ Exhausted(ctx) \/ Overshot(ctx) \/ IsAborted(ctx)
        /\ BeforeStart(ctx) <=> (Len(stack) = 1 /\ Top.f = "ServeHTTP" /\ Top.pc = "next")
        /\ (status = "returned" /\ extra = 0 /\ NoAbort) =>
               /\ NextCalls = {} => Exhausted(ctx)
               /\ NextCalls # {} => Overshot(ctx)

\* A drive over two handlers, the first calling Next, has returned.
ReturnedAboveChainLength ==
    /\ status = "returned" /\ NoAbort
    /\ Len(ctx.handlerChain) = 2
    /\ Events("next") # {} /\ Events("rebind") = {}
    /\ ctx.index = 3

----------------------------------------------------------------------------
\* C31: when a drive has returned, IsAborted() is true exactly if Abort was
\* called on the context since Mezvaro.Handle last reset its cursor.
AbortCalledSinceReset ==
    \E k \in Events("abort") : \A j \in Events("rebind") : j < k

AbortedExactlyWhenAbortCalled ==
    (status = "returned" /\ extra = 0) => (IsAborted(ctx) <=> AbortCalledSinceReset)

----------------------------------------------------------------------------
\* C32: while a request is served the cursor goes back only where
\* Mezvaro.Handle resets it to -1, and once Abort has been called the cursor
\* stays at or above MaxHandlers.
CursorNeverGoesBack ==
    [][status = "running" =>
           /\ ctx'.index < ctx.index => (ctx'.index = -1 /\ Top.f = "pipe")
           /\ Events("abort") # {} => IsAborted(ctx')]_vars

----------------------------------------------------------------------------
\* C33: two requests served at once by the same instance, or by the same
\* http.Handler made by H, observe the same, each with its own transport
\* objects: what one has observed so far is the beginning of what the other
\* has observed, and at the same point of the drive their contexts have the
\* same cursor, scope and chain.
Observation(l, id) ==
    [k \in DOMAIN l |->
        [l[k] EXCEPT !.w = IF @ = RequestObjects(id).w THEN "own" ELSE @,
                     !.r = IF @ = RequestObjects(id).r THEN "own" ELSE @]]

Seen(c, id) ==
    [c EXCEPT !.Response = IF @ = RequestObjects(id).w THEN "own" ELSE @,
              !.Request = IF @ = RequestObjects(id).r THEN "own" ELSE @]

RequestsAreIndependent ==
    (status # "idle" /\ other.status # "idle" /\ log[1].h = other.log[1].h) =>
        LET mine   == Observation(log, Current)
            theirs == Observation(other.log, other.id)
        IN /\ IsPrefix(mine, theirs) \/ IsPrefix(theirs, mine)
           /\ (Len(log) = Len(other.log) /\ stack = other.stack /\ status = other.status) =>
                  Seen(ctx, Current) = Seen(other.ctx, other.id)
           /\ ctx.Response # other.ctx.Response \/ ctx.Response = "wA"

\* Both requests are under way through the same http.Handler made by H: one
\* has set a value and aborted, the other has run its first handler only.
AbortedBesideRunning ==
    /\ status = "running" /\ other.status = "running"
    /\ log[1].h = other.log[1].h /\ log[1].h.k = "entry"
    /\ IsAborted(ctx) /\ ctx.netCtx # Background
    /\ ~IsAborted(other.ctx) /\ other.ctx.netCtx = Background
    /\ Len(other.log) >= 2

----------------------------------------------------------------------------
\* C34: a call of Use on an instance changes the own list of no other
\* instance, and the resolved chain of no instance but those forked from it.
UseChangesOnlyItsReceiver ==
    [][\A m \in PipeIds(pipes) :
           Uses(m) =>
               \A q \in PipeIds(pipes) \ {m} :
                   /\ pipes'[q].handlerChain = pipes[q].handlerChain
                   /\ m \notin Ancestors(pipes, q) =>
                          wholeChain(pipes', q) = wholeChain(pipes, q)]_vars

----------------------------------------------------------------------------
\* C35: m.H(h) changes no instance and no http.Handler made before, and what
\* it makes holds the resolved chain of m followed by h; a request through it
\* is served with that chain, invokes h last when the chain is run to its end,
\* and invokes the last handler of no other http.Handler.
HAppendsWithoutModifying ==
    [][/\ Len(entries') = Len(entries) + 1 =>
              LET e == entries'[Len(entries')]
              IN /\ pipes' = pipes
                 /\ SubSeq(entries', 1, Len(entries)) = entries
                 /\ e.wholeChain = wholeChain(pipes, e.m) \o <<e.h>>
       /\ (status' # "idle" /\ log'[1].h.k = "entry") =>
              LET e == entries[log'[1].h.p]
              IN /\ log'[1].chain = e.wholeChain
                 /\ e.wholeChain[Len(e.wholeChain)] = e.h
                 /\ \A k \in DOMAIN log' :
                        (log'[k].ev = "invoke" /\ log'[k].h \in Terminals) => log'[k].h = e.h
                 /\ (status' = "returned" /\ Generation(log') = 0) =>
                        \E k \in DOMAIN log' :
                            /\ log'[k].ev = "invoke" /\ log'[k].h = e.h
                            /\ log'[k].i = Len(e.wholeChain) - 1
                            /\ \A j \in DOMAIN log' : log'[j].ev = "invoke" => j <= k]_vars

\* A request through the http.Handler made from a fork has returned, while the
\* instance forked from has an http.Handler with another last handler.
ServedThroughOneOfTwoEntries ==
    /\ Len(entries) = 2
    /\ entries[1].h # entries[2].h
    /\ pipes[entries[2].m].parent = entries[1].m
    /\ pipes[entries[1].m].handlerChain # <<>>
    /\ status = "returned"
    /\ log[1].h = EntryHandler(2)
    /\ \E k \in Events("invoke") : log[k].h = entries[2].h

----------------------------------------------------------------------------
\* C36: a drive over a chain that holds no nested instance invokes the chain
\* positions in strictly increasing order, so each at most once and no more
\* handlers than the chain has, however often handlers call Next.
DriveInvokesInOrder ==
    (status # "idle" /\ Generation(log) = 0) =>
        \A j, k \in Events("invoke") : j < k => log[j].i < log[k].i

\* On chains of at most OnceTotal handlers: the order, the number of
\* invocations, and the end of the drive.
DriveInvokesInOrderAndEnds ==
    /\ [](DriveInvokesInOrder /\
             (status # "idle" => Cardinality(Events("invoke")) <= Len(log[1].chain)))
    /\ (status = "running") ~> (status = "returned")

\* A drive over three handlers has returned: the first called Next twice, and
\* three handlers were invoked.
ReturnedAfterNextTwice ==
    /\ status = "returned"
    /\ Len(ctx.handlerChain) = 3
    /\ ctx.handlerChain[1] = HandlerFunc("nextNext")
    /\ Cardinality({k \in Events("next") : log[k].i = 0}) = 2
    /\ Cardinality(Events("invoke")) = 3

----------------------------------------------------------------------------
\* C37: the context made for a request holds the response, the request, the
\* resolved chain and the parameters extracted, with the cursor at -1, the
\* background scope and no handler run; after that the parameters never
\* change, and the response and the request change only where the inner
\* handler given to a middleware by WrapHandlerMiddleware stores what it got.
ContextKeepsWhatItWasMadeWith ==
    [][/\ (status = "idle" /\ status' = "running") =>
              /\ ctx'.Response = ServerObjects.w
              /\ ctx'.Request = ServerObjects.r
              /\ ctx'.handlerChain = wholeChain(pipes, log'[1].h.p)
              /\ ctx'.urlParams
                     = (IF urlParamsExtractor = "default" THEN NilMap
                        ELSE MapOf({<<"param", "value">>}))
              /\ ctx'.index = -1
              /\ ctx'.netCtx = <<>>
              /\ Len(log') = 1
       /\ status = "running" =>
              /\ ctx'.urlParams = ctx.urlParams
              /\ Held(ctx') # Held(ctx) =>
                     /\ Top.f = "mw" /\ Top.pc = "start"
                     /\ Held(ctx') = InnerObjects(Top.h.b, Held(ctx))]_vars

\* A request whose parameters were extracted has returned: its handlers set a
\* value, substituted the transport objects and aborted.
ReturnedWithParamsKept ==
    /\ status = "returned"
    /\ UrlParam(ctx, "param") = "value"
    /\ ctx.Response = "wA"
    /\ Value(ctx, "key") = "v1"
    /\ IsAborted(ctx)

====
